---- MODULE Spec2Model ----
(***************************************************************************)
(* Model of the ConnectDeaf AI services:                                   *)
(*   ai-api               routes/certificate.py, routes/chat.py,           *)
(*                        infra/storage.py                                 *)
(*   connectdeaf-faq-api  infra/vector_database.py, services/faq.py,       *)
(*                        routes/faq.py                                    *)
(*                                                                         *)
(* Strings are sequences of atoms (an atom is a whitespace character or a  *)
(* run of non-whitespace characters); byte strings likewise.  A Python     *)
(* call that may raise is modelled by a record whose field exc names the   *)
(* exception ("none" when the call returns).                               *)
(***************************************************************************)
EXTENDS Integers, Sequences, FiniteSets, TLC

VARIABLES
    blobs,      \* blob storage: <<container, blob name>> -> optional bytes
    upresp,     \* HTTP outcome of the last upload_file request
    vpc,        \* position of the verify_file request
    vreq,       \* the VerifyDocumentRequest being served
    vcontent,   \* content_bytes returned by download_file
    vtext,      \* the outcome of the OCR call
    vgen,       \* the outcome of the generation call
    vcalls,     \* external calls made so far by the verify_file request
    vresp       \* HTTP outcome seen by the caller of verify_file

verifyVars == <<blobs, upresp, vpc, vreq, vcontent, vtext, vgen, vcalls, vresp>>

VARIABLES
    indexes,    \* search service: index name -> optional index definition
    docs,       \* documents stored in the index 'faq-index'
    uploads,    \* documents submitted to the index by upload_documents calls
    nextId,     \* number of document ids generated so far
    ensureLog,  \* one entry per AzureSearchVectorDB construction
    op          \* the vector-database operation in progress or last completed

indexVars == <<indexes, docs, uploads, nextId, ensureLog, op>>

VARIABLES
    cpc,        \* position of the chat request
    creq,       \* the service serving it ("ai-api" or "faq-api") and the query
    cemb,       \* the outcome of the embedding call for the query
    csearch,    \* the outcome of search_similar_documents
    cctx,       \* the outcome of the context assembly
    cgen,       \* the outcome of the generation call
    ccalls,     \* stages entered so far by the chat request
    cresp       \* HTTP outcome seen by the caller of /api/faq/chat

chatVars == <<cpc, creq, cemb, csearch, cctx, cgen, ccalls, cresp>>

VARIABLES
    inst        \* the constructions in progress: instance -> its position and outcome
raceVars == <<inst>>

vars == <<verifyVars, indexVars, chatVars, raceVars>>

(***************************************************************************)
(* Strings                                                                 *)
(***************************************************************************)
Whitespace == {" ", "\n"}

\* str.lstrip()
RECURSIVE LStrip(_)
LStrip(s) ==
    IF s = <<>> THEN <<>>
    ELSE IF Head(s) \in Whitespace THEN LStrip(Tail(s)) ELSE s

\* str.rstrip()
RECURSIVE RStrip(_)
RStrip(s) ==
    IF s = <<>> THEN <<>>
    ELSE IF s[Len(s)] \in Whitespace THEN RStrip(SubSeq(s, 1, Len(s) - 1)) ELSE s

\* str.strip()
Strip(s) == RStrip(LStrip(s))

Range(s) == {s[i] : i \in DOMAIN s}

\* Optional values (None or a value).
None == [some |-> FALSE, val |-> <<>>]
Some(v) == [some |-> TRUE, val |-> v]

\* The test `o is not None`: only None fails it, the empty value passes.
IsNotNone(o) == o.some

\* Python truthiness of an optional str/bytes: None and the empty value are falsy.
Truthy(o) == o.some /\ o.val # <<>>

(***************************************************************************)
(* JSON texts are sequences of tokens: punctuation, string literals (the   *)
(* field v holds the string), and other scalars / text that is not JSON.   *)
(***************************************************************************)
Tok(t) == [t |-> t, v |-> <<>>]
Str(v) == [t |-> "str", v |-> v]
Num(v) == [t |-> "num", v |-> v]
Junk(v) == [t |-> "junk", v |-> v]

IsJsonScalar(tok) == tok.t \in {"str", "num"}

\* json.dumps({"question": question, "answer": answer})
JsonDumps(question, answer) ==
    << Tok("{"), Str(<<"question">>), Tok(":"), Str(question), Tok(","),
       Str(<<"answer">>), Tok(":"), Str(answer), Tok("}") >>

ParseFail == [ok |-> FALSE, kind |-> "", val |-> <<>>]

\* The members of a JSON object: "key": scalar (, "key": scalar)*; a later
\* duplicate key wins.
RECURSIVE ParseMembers(_)
ParseMembers(toks) ==
    IF Len(toks) < 3 THEN ParseFail
    ELSE IF ~(toks[1].t = "str" /\ toks[2].t = ":" /\ IsJsonScalar(toks[3]))
    THEN ParseFail
    ELSE IF Len(toks) = 3
    THEN [ok |-> TRUE, kind |-> "dict", val |-> (toks[1].v :> toks[3])]
    ELSE IF toks[4].t # "," THEN ParseFail
    ELSE LET rest == ParseMembers(SubSeq(toks, 5, Len(toks)))
         IN  IF ~rest.ok THEN ParseFail
             ELSE [ok |-> TRUE, kind |-> "dict",
                   val |-> rest.val @@ (toks[1].v :> toks[3])]

\* json.loads(s): a scalar, or an object of scalars; ok is FALSE where
\* json.loads raises JSONDecodeError.
JsonLoads(toks) ==
    IF Len(toks) = 1
    THEN IF IsJsonScalar(toks[1])
         THEN [ok |-> TRUE, kind |-> toks[1].t, val |-> toks[1].v]
         ELSE ParseFail
    ELSE IF Len(toks) >= 2 /\ toks[1].t = "{" /\ toks[Len(toks)].t = "}"
    THEN IF Len(toks) = 2
         THEN [ok |-> TRUE, kind |-> "dict", val |-> <<>>]
         ELSE ParseMembers(SubSeq(toks, 2, Len(toks) - 1))
    ELSE ParseFail

\* " ".join(parts)
RECURSIVE Join(_)
Join(parts) ==
    IF parts = <<>> THEN <<>>
    ELSE IF Len(parts) = 1 THEN parts[1]
    ELSE parts[1] \o <<" ">> \o Join(Tail(parts))

(***************************************************************************)
(* Outcomes of calls and HTTP responses                                    *)
(***************************************************************************)
\* A call that returned val.
Returned(v) == [exc |-> "none", status |-> 0, detail |-> "", val |-> v]

\* A call that raised an exception of class exc.
Raised(e, detail) == [exc |-> e, status |-> 0, detail |-> detail, val |-> <<>>]

\* raise HTTPException(status_code=status, detail=detail)
HTTPException(status, detail) ==
    [exc |-> "HTTPException", status |-> status, detail |-> detail, val |-> <<>>]

\* What the HTTP client sees: a status and either a response model or a detail.
HttpResponse(status, response, detail) ==
    [status |-> status, response |-> response, detail |-> detail]

NoResponse == HttpResponse(0, <<>>, "")

(***************************************************************************)
(* infra/vector_database.py (connectdeaf-faq-api)                          *)
(***************************************************************************)
index_name == "faq-index"
embeddings_dimension == 1536

IndexNames == {index_name, "docs-index"}

\* AzureSearchVectorDB._get_index_fields
get_index_fields ==
    { [name |-> "id", type |-> "Edm.String", key |-> TRUE, filterable |-> TRUE,
       searchable |-> TRUE, dimensions |-> 0, profile |-> ""],
      [name |-> "type", type |-> "Edm.String", key |-> FALSE, filterable |-> TRUE,
       searchable |-> TRUE, dimensions |-> 0, profile |-> ""],
      [name |-> "doc_content", type |-> "Edm.String", key |-> FALSE,
       filterable |-> TRUE, searchable |-> TRUE, dimensions |-> 0, profile |-> ""],
      [name |-> "document_vector", type |-> "Collection(Edm.Single)", key |-> FALSE,
       filterable |-> FALSE, searchable |-> TRUE,
       dimensions |-> embeddings_dimension, profile |-> "ExhaustiveKnnProfile"] }

\* AzureSearchVectorDB._get_vector_search_config
get_vector_search_config ==
    [ algorithms |-> {[name |-> "ExhaustiveKnn", kind |-> "exhaustiveKnn",
                       metric |-> "cosine"]},
      profiles |-> {[name |-> "ExhaustiveKnnProfile",
                     algorithm |-> "ExhaustiveKnn"]} ]

\* SearchIndex(name=..., fields=..., vector_search=...)
SearchIndex(name, fields, vector_search) ==
    [name |-> name, fields |-> fields, vector_search |-> vector_search]

FieldNames(index) == {f.name : f \in index.fields}
VectorFields(index) == {f \in index.fields : f.dimensions > 0}

\* AzureSearchVectorDB._get_existing_index_names: a failure of the listing
\* is caught and the empty list is returned.
get_existing_index_names(ixs, listFault) ==
    IF listFault THEN {} ELSE {n \in DOMAIN ixs : ixs[n].some}

\* index_client.create_index(index): the service creates the index and
\* rejects the request when an index of that name exists.
create_index(ixs, index, createFault) ==
    IF createFault \/ index.name \notin DOMAIN ixs \/ ixs[index.name].some
    THEN [indexes |-> ixs, created |-> "failed", out |-> Raised("HttpResponseError", "index")]
    ELSE [indexes |-> [ixs EXCEPT ![index.name] = Some(index)],
          created |-> "ok", out |-> Returned(<<>>)]

\* index_client.create_or_update_index(index): the service creates the index
\* or replaces the definition of the index of that name.
create_or_update_index(ixs, index, createFault) ==
    IF createFault \/ index.name \notin DOMAIN ixs
    THEN [indexes |-> ixs, created |-> "failed", out |-> Raised("HttpResponseError", "index")]
    ELSE [indexes |-> [ixs EXCEPT ![index.name] = Some(index)],
          created |-> "ok", out |-> Returned(<<>>)]

\* _create_vector_index without its try/except.
create_vector_index_raising(ixs, createFault) ==
    create_or_update_index(
        ixs, SearchIndex(index_name, get_index_fields, get_vector_search_config),
        createFault)

\* AzureSearchVectorDB._create_vector_index: a failure is logged, not raised.
create_vector_index(ixs, createFault) ==
    LET r == create_or_update_index(
                 ixs,
                 SearchIndex(index_name, get_index_fields, get_vector_search_config),
                 createFault)
    IN  [r EXCEPT !.out = Returned(<<>>)]

\* AzureSearchVectorDB.__init__: create the index if its name is not listed.
AzureSearchVectorDB_init(ixs, listFault, createFault) ==
    IF index_name \notin get_existing_index_names(ixs, listFault)
    THEN create_vector_index(ixs, createFault)
    ELSE [indexes |-> ixs, created |-> "skipped", out |-> Returned(<<>>)]

\* The index definition this code creates.
FaqIndex == SearchIndex(index_name, get_index_fields, get_vector_search_config)

\* openai_client.embeddings.create for one input: a vector, here its length,
\* or an error.  The length is that of the configured embedding model.
EmbedOutcomes ==
    { [Raised("APIError", "embeddings") EXCEPT !.val = 0],
      Returned(embeddings_dimension),
      Returned(2 * embeddings_dimension) }

\* AzureSearchVectorDB._generate_embeddings: the vector (its length); the
\* empty list when the call fails.
generate_embeddings(service) ==
    IF service.exc # "none" THEN 0 ELSE service.val

\* search_client.upload_documents(documents=[doc]): the service rejects the
\* request when the index is absent, when the document has a property that
\* is no field of the index, or when a vector has not the field's dimension.
upload_documents(ixs, stored, doc, uploadFault) ==
    IF uploadFault \/ ~ixs[index_name].some
    THEN [docs |-> stored, out |-> Raised("HttpResponseError", "upload")]
    ELSE IF ~(DOMAIN doc \subseteq FieldNames(ixs[index_name].val))
    THEN [docs |-> stored, out |-> Raised("HttpResponseError", "unknown property")]
    ELSE IF \E f \in VectorFields(ixs[index_name].val) :
                f.name \in DOMAIN doc /\ doc[f.name] # f.dimensions
    THEN [docs |-> stored, out |-> Raised("HttpResponseError", "dimension")]
    ELSE [docs |-> {d \in stored : d.id # doc.id} \cup {doc}, out |-> Returned(<<>>)]

\* The body of insert_document_faq / insert_document after data_str is
\* built: embed, build the document, upload; every exception is swallowed.
\* `sent` is the document handed to upload_documents.
insert_doc(ixs, stored, id, type, content, embedService, uploadFault) ==
    LET doc == [id |-> id, type |-> type, doc_content |-> Some(content),
                doc_content_embeddings |-> generate_embeddings(embedService)]
        up == upload_documents(ixs, stored, doc, uploadFault)
    IN  [docs |-> up.docs, sent |-> doc, upload |-> up.out, out |-> Returned(<<>>)]

\* AzureSearchVectorDB.insert_document_faq
insert_document_faq(ixs, stored, id, question, answer, embedService, uploadFault) ==
    insert_doc(ixs, stored, id, "faq", JsonDumps(question, answer),
               embedService, uploadFault)

\* AzureSearchVectorDB.insert_document
insert_document(ixs, stored, id, content, embedService, uploadFault) ==
    insert_doc(ixs, stored, id, "doc", content, embedService, uploadFault)

\* The OData filters the callers use.
MatchesFilter(filter, doc) ==
    \/ filter = "type eq 'faq'" /\ doc.type = "faq"
    \/ filter = "type eq 'doc'" /\ doc.type = "doc"

Min(a, b) == IF a < b THEN a ELSE b

\* The rankings the service can return for a set of matching documents: the
\* similarity order is the service's, so any order of any top documents.
Rankings(matching, top) ==
    LET m == Min(top, Cardinality(matching))
    IN  {r \in [1..m -> matching] : \A i, j \in 1..m : r[i] = r[j] => i = j}

\* select=["id", "doc_content", "type"]
Select(doc) == [id |-> doc.id, doc_content |-> doc.doc_content, type |-> doc.type]

\* search_client.search(top=k, vector_queries=[VectorizedQuery(vector, fields)],
\* select=..., filter=...): the outcomes the service can produce.  It rejects
\* a query on an absent index, on a field that is no vector field of the
\* index, and with a vector that has not the field's dimension.
search(ixs, stored, vector, fields, filter, top, searchFault) ==
    IF searchFault \/ ~ixs[index_name].some
    THEN {Raised("HttpResponseError", "search")}
    ELSE IF ~(\E f \in VectorFields(ixs[index_name].val) :
                  f.name = fields /\ f.dimensions = vector)
    THEN {Raised("HttpResponseError", "vector")}
    ELSE { Returned([i \in DOMAIN r |-> Select(r[i])]) :
             r \in Rankings({d \in stored : /\ fields \in DOMAIN d
                                            /\ MatchesFilter(filter, d)}, top) }

\* pd.DataFrame(results): the columns are the keys of the rows; no rows, no
\* columns.
DataFrame(rows) ==
    [columns |-> UNION {DOMAIN rows[i] : i \in DOMAIN rows}, rows |-> rows]

\* df[name].values: KeyError when the frame has no such column.
Column(df, name) ==
    IF name \notin df.columns THEN Raised("KeyError", name)
    ELSE Returned([i \in DOMAIN df.rows |-> df.rows[i][name]])

\* search_similar_documents: the vector queries it hands to
\* search_client.search, whatever _generate_embeddings returned.
vector_queries(embedService) ==
    << [vector |-> generate_embeddings(embedService), fields |-> "document_vector"] >>

\* search_similar_documents with the policy of _get_existing_index_names: an
\* exception of the search is logged and an empty frame is returned.
search_similar_documents_swallowing(ixs, stored, embedService, k, filters, searchFault) ==
    LET query_embedding == generate_embeddings(embedService)
        results == search(ixs, stored, query_embedding, "document_vector",
                          IF filters # "" THEN filters ELSE "type eq 'doc'",
                          k, searchFault)
    IN  {IF r.exc = "none" THEN Returned(DataFrame(r.val))
         ELSE Returned(DataFrame(<<>>)) : r \in results}

\* AzureSearchVectorDB.search_similar_documents: the outcomes of one call
\* (filters = "" stands for None); an exception of the search propagates.
search_similar_documents(ixs, stored, embedService, k, filters, searchFault) ==
    LET query_embedding == generate_embeddings(embedService)
        results == search(ixs, stored, query_embedding, "document_vector",
                          IF filters # "" THEN filters ELSE "type eq 'doc'",
                          k, searchFault)
    IN  {IF r.exc = "none" THEN Returned(DataFrame(r.val)) ELSE r : r \in results}

\* insert_documents_from_json, one round of its loop: the arguments
\* item["question"], item["answer"] are evaluated (KeyError when a key is
\* missing) and insert_document_faq is called.
bulk_item(ixs, stored, id, item, embedService, uploadFault) ==
    IF ~({"question", "answer"} \subseteq DOMAIN item)
    THEN [docs |-> stored, attempted |-> FALSE, sent |-> <<>>,
          out |-> Raised("KeyError", "item")]
    ELSE LET r == insert_document_faq(ixs, stored, id, item.question, item.answer,
                                      embedService, uploadFault)
         IN  [docs |-> r.docs, attempted |-> TRUE, sent |-> <<r.sent>>, out |-> r.out]

(***************************************************************************)
(* infra/storage.py                                                        *)
(***************************************************************************)
DOCUMENTS_CONTAINER_NAME == "documents"

BlobNames == {"a.pdf", "b.pdf"}
BlobKeys == {DOCUMENTS_CONTAINER_NAME} \X BlobNames

\* Files a client sends, base64-encoded, and what base64.b64decode makes of
\* each group of four characters; any other group is not valid base64.
B64Groups == [x \in {"QUJD", "REVG"} |-> IF x = "QUJD" THEN "ABC" ELSE "DEF"]

\* base64.b64decode(v, validate=True) succeeds
B64Valid(v) == \A i \in 1..Len(v) : v[i] \in DOMAIN B64Groups

\* base64.b64decode(v)
B64Decode(v) == [i \in 1..Len(v) |-> B64Groups[v[i]]]

\* Storage.upload_file: upload_blob(content, overwrite=True); the blob store
\* after the call and the call's outcome.
upload_file(store, container_name, filename, content, storageFails) ==
    IF storageFails \/ <<container_name, filename>> \notin DOMAIN store
    THEN [store |-> store, out |-> Raised("AzureError", "upload")]
    ELSE [store |-> [store EXCEPT ![<<container_name, filename>>] = Some(content)],
          out |-> Returned(<<container_name, filename>>)]

\* Storage.download_file: a path is the sequence of its "/"-separated
\* segments (at most two here, so split("/", 1) is the sequence itself).
\* Every exception (no "/" in the path, no such blob, a storage error) is
\* caught and None is returned.
download_file(store, blob_path, storageFails) ==
    IF Len(blob_path) < 2 THEN None
    ELSE IF storageFails THEN None
    ELSE IF <<blob_path[1], blob_path[2]>> \notin DOMAIN store THEN None
    ELSE store[<<blob_path[1], blob_path[2]>>]

(***************************************************************************)
(* routes/certificate.py                                                   *)
(***************************************************************************)
\* UploadDocumentRequest validators
validate_base64(v) == B64Valid(v)
validate_filename(v) == v # ""

\* UploadFileUseCase.execute
upload_execute(store, filename, content, storageFails) ==
    LET up == upload_file(store, DOCUMENTS_CONTAINER_NAME, filename,
                          B64Decode(content), storageFails)
    IN  IF up.out.exc # "none"
        THEN [store |-> up.store, out |-> HTTPException(500, "Erro no upload")]
        ELSE up

\* upload_file_route: any exception of the use case becomes a 500.
upload_file_route(out) ==
    IF out.exc = "none" THEN HttpResponse(201, out.val, "")
    ELSE HttpResponse(500, <<>>, "Failed")

\* VerifyFileUseCase._ocr: ocr is what the OCR service does: it returns
\* result.content (a text, or None) or raises.
ocr(service) ==
    IF service.exc = "AzureError" THEN HTTPException(500, "Erro ao realizar OCR")
    ELSE service

\* The QA pipeline's policy (a fixed reply on failure) applied to verification.
verify_generate_response_soft(service) ==
    IF service.exc # "none" \/ ~service.val.some
    THEN Returned(<<"Desculpe">>)
    ELSE Returned(Strip(service.val.val))

\* VerifyFileUseCase._generate_response: gen is what the generation service
\* does: it returns message.content (a text, or None) or raises.
verify_generate_response(service) ==
    IF service.exc # "none"
    THEN HTTPException(500, "Erro ao gerar resposta via OpenAI")
    ELSE IF ~service.val.some          \* None.strip() inside the try
    THEN HTTPException(500, "Erro ao gerar resposta via OpenAI")
    ELSE Returned(Strip(service.val.val))

\* VerifyFileUseCase.execute, after download_file returned content_bytes.
execute_after_download(content_bytes) ==
    IF ~Truthy(content_bytes)
    THEN HTTPException(404, "Arquivo não encontrado")
    ELSE Returned(<<>>)

\* The blank check without strip(): `if not extracted_text`.
execute_after_ocr_nostrip(o) ==
    IF o.exc # "none" THEN o
    ELSE IF ~o.val.some THEN Raised("AttributeError", "strip")
    ELSE IF o.val.val = <<>>
    THEN HTTPException(500, "Falha na extração de texto")
    ELSE Returned(<<>>)

\* VerifyFileUseCase.execute, after _ocr returned or raised.
execute_after_ocr(o) ==
    IF o.exc # "none" THEN o
    ELSE IF ~o.val.some THEN Raised("AttributeError", "strip")
    ELSE IF Strip(o.val.val) = <<>>
    THEN HTTPException(500, "Falha na extração de texto")
    ELSE Returned(<<>>)

\* verify_file_route: `except Exception` catches every exception of the use
\* case, HTTPException included, and raises HTTPException(500).
verify_file_route(out) ==
    IF out.exc = "none" THEN HttpResponse(200, out.val, "")
    ELSE HttpResponse(500, <<>>, "Failed")

\* Inputs of the requests and behaviours of the collaborators.
Filenames == BlobNames \cup {""}
B64Contents == {<<>>, <<"QUJD">>, <<"!!!!">>}
DocumentPaths ==
    {<<DOCUMENTS_CONTAINER_NAME, n>> : n \in BlobNames} \cup {<<"a.pdf">>}
ProfessionalNames == {"João da Silva"}
OcrTexts == {<<>>, <<" ">>, <<"\n", " ">>, <<" ", "João", " ", "CRM", "\n">>}
OcrOutcomes ==
    {Returned(Some(t)) : t \in OcrTexts}
        \cup {Returned(None), Raised("AzureError", "ocr"), Raised("Exception", "ocr")}
Replies == {<<"Válido">>, <<" ", "Válido", "\n">>, <<"Inválido">>, <<"Não", " ", "sei">>}
GenOutcomes ==
    {Returned(Some(t)) : t \in Replies}
        \cup {Returned(None), Raised("APIError", "generate")}

\* No chat request has arrived.
ChatIdle ==
    /\ cpc = "idle"
    /\ creq = [service |-> "", query |-> <<>>]
    /\ cemb = Returned(0)
    /\ csearch = Returned(DataFrame(<<>>))
    /\ cctx = Returned(<<>>)
    /\ cgen = Returned(None)
    /\ ccalls = <<>>
    /\ cresp = NoResponse

\* The instances under construction, each about to list the index names.
MaxInstances == 2
Instances == 1..MaxInstances
NewInstance ==
    [pc |-> "list", listFault |-> FALSE, names |-> {}, createFault |-> FALSE,
     created |-> "none", exc |-> "none"]
RaceIdle == inst = [i \in Instances |-> NewInstance]

\* No vector-database operation has run.
NoOp == [kind |-> "none"]

IndexIdle ==
    /\ indexes = [n \in IndexNames |-> None]
    /\ docs = {}
    /\ uploads = {}
    /\ nextId = 0
    /\ ensureLog = <<>>
    /\ op = NoOp

VerifyIdle ==
    /\ blobs = [k \in BlobKeys |-> None]
    /\ upresp = NoResponse
    /\ vpc = "idle"
    /\ vreq = [document_path |-> <<>>, professional_name |-> ""]
    /\ vcontent = None
    /\ vtext = Returned(None)
    /\ vgen = Returned(None)
    /\ vcalls = <<>>
    /\ vresp = NoResponse

VerifyInit ==
    /\ VerifyIdle
    /\ IndexIdle
    /\ ChatIdle
    /\ RaceIdle

\* POST /api/documents/upload_file
UploadFile ==
    \E filename \in Filenames, content \in B64Contents, storageFails \in BOOLEAN :
        /\ IF ~(validate_base64(content) /\ validate_filename(filename))
           THEN /\ upresp' = HttpResponse(422, <<>>, "validation")
                /\ blobs' = blobs
           ELSE LET r == upload_execute(blobs, filename, content, storageFails)
                IN  /\ blobs' = r.store
                    /\ upresp' = upload_file_route(r.out)
        /\ UNCHANGED <<vpc, vreq, vcontent, vtext, vgen, vcalls, vresp, indexVars, chatVars, raceVars>>

\* POST /api/documents/verify_file arrives (the validators reject an empty
\* document_path or professional_name before the use case runs).
VerifyStart ==
    \E p \in DocumentPaths, n \in ProfessionalNames :
        /\ vpc \in {"idle", "done"}
        /\ vreq' = [document_path |-> p, professional_name |-> n]
        /\ vpc' = "download"
        /\ vcontent' = None
        /\ vtext' = Returned(None)
        /\ vgen' = Returned(None)
        /\ vcalls' = <<>>
        /\ vresp' = NoResponse
        /\ UNCHANGED <<blobs, upresp, indexVars, chatVars, raceVars>>

\* execute: await self.storage.download_file(...) and the check after it.
VerifyDownload ==
    \E storageFails \in BOOLEAN :
        LET content == download_file(blobs, vreq.document_path, storageFails)
            out == execute_after_download(content)
        IN  /\ vpc = "download"
            /\ vcontent' = content
            /\ vcalls' = Append(vcalls, "download")
            /\ IF out.exc = "none"
               THEN vpc' = "ocr" /\ vresp' = vresp
               ELSE vpc' = "done" /\ vresp' = verify_file_route(out)
            /\ UNCHANGED <<blobs, upresp, vreq, vtext, vgen, indexVars, chatVars, raceVars>>

\* execute: await self._ocr(content_bytes) and the check after it.
VerifyOcr ==
    \E service \in OcrOutcomes :
        LET out == execute_after_ocr(ocr(service))
        IN  /\ vpc = "ocr"
            /\ vtext' = service
            /\ vcalls' = Append(vcalls, "ocr")
            /\ IF out.exc = "none"
               THEN vpc' = "generate" /\ vresp' = vresp
               ELSE vpc' = "done" /\ vresp' = verify_file_route(out)
            /\ UNCHANGED <<blobs, upresp, vreq, vcontent, vgen, indexVars, chatVars, raceVars>>

\* execute: await self._generate_response(...) and the return.
VerifyGenerate ==
    \E service \in GenOutcomes :
        /\ vpc = "generate"
        /\ vgen' = service
        /\ vcalls' = Append(vcalls, "generate")
        /\ vpc' = "done"
        /\ vresp' = verify_file_route(verify_generate_response(service))
        /\ UNCHANGED <<blobs, upresp, vreq, vcontent, vtext, indexVars, chatVars, raceVars>>

VerifyNext == UploadFile \/ VerifyStart \/ VerifyDownload \/ VerifyOcr \/ VerifyGenerate

SpecVerify == VerifyInit /\ [][VerifyNext]_vars

(***************************************************************************)
(* Certificate verification: properties                                    *)
(***************************************************************************)
Called(calls, c) == c \in Range(calls)

\* The download of the request has returned None: its document_path, a
\* container and a blob name, names no blob that can be read.
DownloadAbsent ==
    /\ Called(vcalls, "download")
    /\ Len(vreq.document_path) = 2
    /\ ~vcontent.some

\* The OCR call of the request returned a text that is empty or whitespace-only.
OcrBlank ==
    /\ Called(vcalls, "ocr")
    /\ vtext.exc = "none" /\ vtext.val.some
    /\ Strip(vtext.val.val) = <<>>

\* The generation call of the request failed.
VerifyGenerationFailed == Called(vcalls, "generate") /\ vgen.exc # "none"

\* C2: a verify_file request whose document_path names no stored blob ends
\* with HTTP 404 for the caller, and neither OCR nor generation is called.
C2_AbsentBlobIs404 ==
    DownloadAbsent =>
        /\ vpc = "done"
        /\ vresp.status = 404
        /\ ~Called(vcalls, "ocr") /\ ~Called(vcalls, "generate")

\* C3: a verify_file request whose OCR text is empty or whitespace-only ends
\* in HTTP 500 and makes no generation call at any point.
C3_BlankTextIs500 ==
    OcrBlank =>
        /\ vpc = "done"
        /\ vresp.status = 500
        /\ ~Called(vcalls, "generate")

C3_Witness ==
    /\ OcrBlank
    /\ vtext.val.val # <<>>
    /\ vpc = "done"

\* C4: a verify_file request whose generation call fails ends in HTTP 500
\* with no judgment; a VerifyDocumentResponse (HTTP 200) is produced only
\* after download, OCR with non-blank text and generation all succeeded, in
\* that order.
C4_GenerationFailureIs500 ==
    /\ VerifyGenerationFailed =>
        /\ vpc = "done"
        /\ vresp.status = 500
        /\ vresp.response = <<>>
    /\ vresp.status = 200 =>
        /\ vcalls = <<"download", "ocr", "generate">>
        /\ Truthy(vcontent)
        /\ vtext.exc = "none" /\ vtext.val.some /\ Strip(vtext.val.val) # <<>>
        /\ vgen.exc = "none" /\ vgen.val.some
        /\ vresp.response = Strip(vgen.val.val)

C4_Witness == VerifyGenerationFailed /\ vpc = "done"

\* C12: every successful response of verify_file carries exactly 'Válido'
\* or 'Inválido', whatever text the generation service replied.
C12_ResponseIsJudgment ==
    vresp.status = 200 => vresp.response \in {<<"Válido">>, <<"Inválido">>}

(***************************************************************************)
(* The vector database: construction, insertion, bulk load, search         *)
(***************************************************************************)
MaxEnsure == 3
MaxInserts == 2
MaxRecords == 2
DefaultK == 3

Questions == {<<"What", " ", "is", " ", "X?">>}
Answers == {<<"X", " ", "is", " ", "a", " ", "service.">>}
RawContents == {<<Junk(<<"raw", " ", "text">>)>>}
Filters == {"", "type eq 'faq'"}

\* A document stored in the index with its vector in the index's vector field.
StoredDoc(id, type, content) ==
    [id |-> id, type |-> type, doc_content |-> content,
     document_vector |-> embeddings_dimension]

StoredPool ==
    { StoredDoc(-1, "faq", Some(JsonDumps(<<"Q">>, <<"A">>))),
      StoredDoc(-2, "doc", Some(<<Junk(<<"raw">>)>>)) }

\* The records of a JSON file: with both keys, or with one missing.
Items ==
    UNION { {[question |-> q, answer |-> a], [question |-> q], [answer |-> a]} :
              <<q, a>> \in Questions \X Answers }

ItemSeqs == UNION {[1..n -> Items] : n \in 0..MaxRecords}

InBulkLoop == op.kind = "bulk" /\ op.pc = "loop"

\* AzureSearchVectorDB(): one construction, against the service as it is.
Construct ==
    \E listFault \in BOOLEAN, createFault \in BOOLEAN :
        LET r == AzureSearchVectorDB_init(indexes, listFault, createFault)
        IN  /\ Len(ensureLog) < MaxEnsure
            /\ indexes' = r.indexes
            /\ ensureLog' = Append(ensureLog,
                   [before |-> indexes, after |-> r.indexes, listFault |-> listFault,
                    created |-> r.created, exc |-> r.out.exc])
            /\ UNCHANGED <<docs, uploads, nextId, op, verifyVars, chatVars, raceVars>>

EnsureInit ==
    /\ VerifyIdle
    /\ ChatIdle
    /\ RaceIdle
    /\ \E present \in SUBSET IndexNames :
          indexes = [n \in IndexNames |->
                        IF n \in present
                        THEN Some(SearchIndex(n, get_index_fields,
                                              get_vector_search_config))
                        ELSE None]
    /\ docs = {}
    /\ uploads = {}
    /\ nextId = 0
    /\ ensureLog = <<>>
    /\ op = NoOp


\* insert_document_faq(question, answer)
InsertDocumentFaq ==
    \E q \in Questions, a \in Answers, e \in EmbedOutcomes, uploadFault \in BOOLEAN :
        LET r == insert_document_faq(indexes, docs, nextId + 1, q, a, e, uploadFault)
        IN  /\ ~InBulkLoop
            /\ nextId < MaxInserts
            /\ nextId' = nextId + 1
            /\ docs' = r.docs
            /\ uploads' = uploads \cup {r.sent}
            /\ op' = [kind |-> "insert_faq", question |-> q, answer |-> a,
                      embed |-> e, uploadFault |-> uploadFault, sent |-> r.sent,
                      upload |-> r.upload, out |-> r.out]
            /\ UNCHANGED <<indexes, ensureLog, verifyVars, chatVars, raceVars>>

\* insert_document(content)
InsertDocument ==
    \E c \in RawContents, e \in EmbedOutcomes, uploadFault \in BOOLEAN :
        LET r == insert_document(indexes, docs, nextId + 1, c, e, uploadFault)
        IN  /\ ~InBulkLoop
            /\ nextId < MaxInserts
            /\ nextId' = nextId + 1
            /\ docs' = r.docs
            /\ uploads' = uploads \cup {r.sent}
            /\ op' = [kind |-> "insert", content |-> c,
                      embed |-> e, uploadFault |-> uploadFault, sent |-> r.sent,
                      upload |-> r.upload, out |-> r.out]
            /\ UNCHANGED <<indexes, ensureLog, verifyVars, chatVars, raceVars>>

\* insert_documents_from_json(json_filepath): the file is read; a file that
\* cannot be read or parsed ends the call (the exception is logged).
BulkStart ==
    \E readable \in BOOLEAN, items \in ItemSeqs :
        /\ ~InBulkLoop
        /\ nextId + Len(items) <= MaxInserts
        /\ op' = [kind |-> "bulk",
                  pc |-> IF ~readable THEN "failed"
                         ELSE IF items = <<>> THEN "done" ELSE "loop",
                  items |-> IF readable THEN items ELSE <<>>,
                  i |-> 1, attempted |-> <<>>]
        /\ UNCHANGED <<indexes, docs, uploads, nextId, ensureLog, verifyVars, chatVars, raceVars>>

\* insert_documents_from_json: one round of the loop over data["faq"]; an
\* exception raised in the round leaves the loop (the outer except logs it).
BulkStep ==
    \E e \in EmbedOutcomes, uploadFault \in BOOLEAN :
        LET r == bulk_item(indexes, docs, nextId + 1, op.items[op.i], e, uploadFault)
        IN  /\ InBulkLoop
            /\ docs' = r.docs
            /\ uploads' = uploads \cup Range(r.sent)
            /\ nextId' = IF r.attempted THEN nextId + 1 ELSE nextId
            /\ op' = [op EXCEPT
                        !.pc = IF r.out.exc # "none" THEN "failed"
                               ELSE IF op.i = Len(op.items) THEN "done" ELSE "loop",
                        !.i = op.i + 1,
                        !.attempted = IF r.attempted THEN Append(@, op.i) ELSE @]
            /\ UNCHANGED <<indexes, ensureLog, verifyVars, chatVars, raceVars>>

\* search_similar_documents(query, k, filters)
Search ==
    \E e \in EmbedOutcomes, k \in {1, DefaultK}, filters \in Filters,
       searchFault \in BOOLEAN :
        \E r \in search_similar_documents(indexes, docs, e, k, filters, searchFault) :
            /\ ~InBulkLoop
            /\ op' = [kind |-> "search", embed |-> e, k |-> k, filters |-> filters,
                      searchFault |-> searchFault, queries |-> vector_queries(e),
                      out |-> r]
            /\ UNCHANGED <<indexes, docs, uploads, nextId, ensureLog, verifyVars, chatVars, raceVars>>

\* Constructions, and searches through the instances they made.
EnsureNext == Construct \/ Search

SpecEnsure == EnsureInit /\ [][EnsureNext]_vars

\* __init__ of instance i, its first call of the service:
\* `self.index_name not in self._get_existing_index_names()`.
RaceList(i) ==
    \E listFault \in BOOLEAN :
        LET names == get_existing_index_names(indexes, listFault)
        IN  /\ inst[i].pc = "list"
            /\ inst' = [inst EXCEPT
                   ![i].listFault = listFault,
                   ![i].names = names,
                   ![i].pc = IF index_name \notin names THEN "create" ELSE "done",
                   ![i].created = IF index_name \notin names THEN "none" ELSE "skipped"]
            /\ UNCHANGED <<indexVars, verifyVars, chatVars>>

\* __init__ of instance i, its second call: self._create_vector_index(),
\* against the service as the other instances have left it meanwhile.
RaceCreate(i) ==
    \E createFault \in BOOLEAN :
        LET r == create_vector_index(indexes, createFault)
        IN  /\ inst[i].pc = "create"
            /\ indexes' = r.indexes
            /\ inst' = [inst EXCEPT
                   ![i].createFault = createFault,
                   ![i].created = r.created,
                   ![i].exc = r.out.exc,
                   ![i].pc = "done"]
            /\ UNCHANGED <<docs, uploads, nextId, ensureLog, op, verifyVars, chatVars>>

\* The instances are constructed while 'faq-index' does not exist.
RaceInit ==
    /\ VerifyIdle
    /\ ChatIdle
    /\ RaceIdle
    /\ \E present \in SUBSET (IndexNames \ {index_name}) :
          indexes = [n \in IndexNames |->
                        IF n \in present
                        THEN Some(SearchIndex(n, get_index_fields,
                                              get_vector_search_config))
                        ELSE None]
    /\ docs = {}
    /\ uploads = {}
    /\ nextId = 0
    /\ ensureLog = <<>>
    /\ op = NoOp

RaceNext == \E i \in Instances : RaceList(i) \/ RaceCreate(i)

SpecRace == RaceInit /\ [][RaceNext]_vars

InsertInit ==
    /\ VerifyIdle
    /\ ChatIdle
    /\ RaceIdle
    /\ \E present \in BOOLEAN :
        /\ indexes = [n \in IndexNames |->
                        IF n = index_name /\ present THEN Some(FaqIndex) ELSE None]
        /\ docs \in (IF present THEN SUBSET StoredPool ELSE {{}})
    /\ uploads = {}
    /\ nextId = 0
    /\ ensureLog = <<>>
    /\ op = NoOp

InsertNext == InsertDocumentFaq \/ InsertDocument \/ BulkStart \/ BulkStep \/ Search

SpecInsert == InsertInit /\ [][InsertNext]_vars

(***************************************************************************)
(* The vector database: properties                                         *)
(***************************************************************************)
\* C5 as stated: after N >= 1 constructions there is exactly one index named
\* 'faq-index', no construction from the 2nd on raised, and none of them
\* altered the existing index.
C5_ExactlyOneIndex ==
    ensureLog # <<>> =>
        /\ indexes[index_name].some
        /\ \A i \in DOMAIN ensureLog :
              i >= 2 => /\ ensureLog[i].exc = "none"
                        /\ ensureLog[i].before[index_name].some
                        /\ ensureLog[i].after = ensureLog[i].before

\* C5 as amended: no construction raises, none alters an index that exists,
\* and 'faq-index' exists afterwards exactly when it existed before or the
\* construction's create-or-update request succeeded, and then with the
\* definition this code creates (a failed creation is swallowed and leaves
\* no index).
C5_EnsureIndexIdempotent ==
    /\ \A i \in DOMAIN ensureLog :
          LET e == ensureLog[i]
          IN  /\ e.exc = "none"
              /\ e.before[index_name].some => e.after = e.before
              /\ e.after[index_name].some <=>
                     (e.before[index_name].some \/ e.created = "ok")
              /\ \A n \in IndexNames \ {index_name} : e.after[n] = e.before[n]
    /\ ensureLog # <<>> => indexes = ensureLog[Len(ensureLog)].after
    /\ indexes[index_name].some => indexes[index_name].val = FaqIndex

\* Two constructions, the second of which sent a create-or-update request
\* for the index the first had created.
C5_Witness ==
    /\ Len(ensureLog) >= 2
    /\ ~ensureLog[1].before[index_name].some
    /\ ensureLog[1].created = "ok"
    /\ ensureLog[2].created = "ok"

\* C6: every document submitted to the index by insert_document or
\* insert_document_faq carries an embedding of length 1536 (an insertion
\* with any other length issues no upload).
C6_UploadsHaveDimension ==
    \A d \in uploads : d.doc_content_embeddings = embeddings_dimension

\* C7: when insert_documents_from_json has ended, every record of the file
\* that has its two keys has had an insertion attempt, whatever failed on
\* the records before it (a missing key included).
C7_EveryRecordAttempted ==
    (op.kind = "bulk" /\ op.pc # "loop") =>
        \A i \in DOMAIN op.items :
            {"question", "answer"} \subseteq DOMAIN op.items[i] =>
                i \in Range(op.attempted)

\* C10: after insert_document_faq(question, answer) on an existing index
\* with a working embedding service (and no failure of the upload request),
\* the document is stored with its embedding in the vector field that
\* search queries, and a search with filter "type eq 'faq'" and k at least
\* the number of stored documents returns it.
C10_InsertedFaqIsFound ==
    ( /\ op.kind = "insert_faq"
      /\ op.embed = Returned(embeddings_dimension)
      /\ indexes[index_name].some
      /\ ~op.uploadFault ) =>
        /\ \E d \in docs :
              /\ d.id = op.sent.id
              /\ d.doc_content = Some(JsonDumps(op.question, op.answer))
              /\ "document_vector" \in DOMAIN d
        /\ \A r \in search_similar_documents(
                        indexes, docs, Returned(embeddings_dimension),
                        Cardinality(docs), "type eq 'faq'", FALSE) :
              /\ r.exc = "none"
              /\ \E i \in DOMAIN r.val.rows : r.val.rows[i].id = op.sent.id

\* C11: when the embedding service errors on the query text, the search
\* fails with an error and issues no nearest-neighbour query; no query is
\* ever issued with an empty query vector.
C11_NoSearchWithoutEmbedding ==
    op.kind = "search" =>
        /\ op.embed.exc # "none" => (op.queries = <<>> /\ op.out.exc # "none")
        /\ \A i \in DOMAIN op.queries : op.queries[i].vector # 0

(***************************************************************************)
(* The chat pipeline: routes/chat.py (ai-api), services/faq.py and         *)
(* routes/faq.py (connectdeaf-faq-api).  Both build their context from     *)
(* AzureSearchVectorDB.search_similar_documents.                           *)
(***************************************************************************)
MaxDocs == 4

Services == {"ai-api", "faq-api"}
Queries == {<<"What", " ", "is", " ", "X?">>}

Apology == <<"Desculpe, não consegui encontrar uma resposta para sua pergunta.">>

IsStr(doc) == doc.some

\* json.loads(doc).get("answer", "") in ai-api, json.loads(doc)["answer"] in
\* connectdeaf-faq-api: the token of the answer, or the exception raised.
answer_of(service, content) ==
    LET j == JsonLoads(content)
    IN  IF ~j.ok THEN Raised("JSONDecodeError", "doc_content")
        ELSE IF j.kind # "dict"
        THEN Raised(IF service = "ai-api" THEN "AttributeError" ELSE "TypeError", "answer")
        ELSE IF <<"answer">> \notin DOMAIN j.val
        THEN IF service = "ai-api" THEN Returned(Str(<<>>))
             ELSE Raised("KeyError", "answer")
        ELSE Returned(j.val[<<"answer">>])

\* " ".join([... for doc in df["doc_content"].values if isinstance(doc, str)])
combined_content(service, values) ==
    LET strs == SelectSeq(values, IsStr)
        parts == [i \in DOMAIN strs |-> answer_of(service, strs[i].val)]
        bad == {i \in DOMAIN parts : parts[i].exc # "none"}
    IN  IF bad # {} THEN parts[CHOOSE i \in bad : \A j \in bad : i <= j]
        ELSE IF \E i \in DOMAIN parts : parts[i].val.t # "str"
        THEN Raised("TypeError", "join")
        ELSE Returned(Join([i \in DOMAIN parts |-> parts[i].val.v]))

\* _generate_response from the search to combined_content.
assemble(service, found) ==
    IF found.exc # "none" THEN found
    ELSE LET col == Column(found.val, "doc_content")
         IN  IF col.exc # "none" THEN col
             ELSE combined_content(service, col.val)

\* _generate_response, the generation call and what is made of the reply:
\* ai-api strips message.content, connectdeaf-faq-api returns it as it is.
chat_synthesize(service, gen) ==
    IF gen.exc # "none" THEN gen
    ELSE IF service = "ai-api"
    THEN IF ~gen.val.some THEN Raised("AttributeError", "strip")
         ELSE Returned(Some(Strip(gen.val.val)))
    ELSE Returned(gen.val)

\* _generate_response without its `except Exception`.
chat_generate_response_raising(out) == out

\* _generate_response: `except Exception` turns every failure of the body
\* into the fixed apology.
chat_generate_response(out) ==
    IF out.exc # "none" THEN Returned(Some(Apology)) ELSE out

\* chat_faq: an exception of the use case is a 500; so is a response that
\* is no string (response_model validation).
chat_faq(out) ==
    IF out.exc # "none" THEN HttpResponse(500, <<>>, "Failed")
    ELSE IF ~out.val.some THEN HttpResponse(500, <<>>, "ResponseValidationError")
    ELSE HttpResponse(200, out.val.val, "")

\* Documents other writers may have left in the index.
ChatPool ==
    { StoredDoc(-1, "faq", Some(JsonDumps(<<"Q1">>, <<"A1">>))),
      StoredDoc(-2, "faq", Some(JsonDumps(<<"Q2">>, <<"A2", " ", "B2">>))),
      StoredDoc(-3, "faq", Some(<<Tok("{"), Str(<<"question">>), Tok(":"),
                                  Str(<<"Q3">>), Tok("}")>>)),
      StoredDoc(-4, "faq", Some(<<Junk(<<"raw">>)>>)),
      StoredDoc(-5, "faq", None),
      StoredDoc(-6, "doc", Some(<<Junk(<<"raw", " ", "text">>)>>)) }

\* POST /api/faq/chat arrives: Depends(FaqUseCase) constructs the use case,
\* and with it an AzureSearchVectorDB.
ChatStart ==
    \E service \in Services, query \in Queries,
       listFault \in BOOLEAN, createFault \in BOOLEAN :
        /\ cpc \in {"idle", "done"}
        /\ indexes' = AzureSearchVectorDB_init(indexes, listFault, createFault).indexes
        /\ creq' = [service |-> service, query |-> query]
        /\ cpc' = "embed"
        /\ cemb' = Returned(0)
        /\ csearch' = Returned(DataFrame(<<>>))
        /\ cctx' = Returned(<<>>)
        /\ cgen' = Returned(None)
        /\ ccalls' = <<>>
        /\ cresp' = NoResponse
        /\ UNCHANGED <<docs, uploads, nextId, ensureLog, op, verifyVars, raceVars>>

\* search_similar_documents: the query is embedded.
ChatEmbed ==
    \E e \in EmbedOutcomes :
        /\ cpc = "embed"
        /\ cemb' = e
        /\ ccalls' = Append(ccalls, "embed")
        /\ cpc' = "search"
        /\ UNCHANGED <<creq, csearch, cctx, cgen, cresp, indexVars, verifyVars, raceVars>>

\* search_similar_documents: the index is searched (k = 3, filter faq), and
\* _generate_response assembles the context from the frame.
ChatSearch ==
    \E searchFault \in BOOLEAN :
        \E r \in search_similar_documents(indexes, docs, cemb, DefaultK,
                                          "type eq 'faq'", searchFault) :
            LET ctx == assemble(creq.service, r)
            IN  /\ cpc = "search"
                /\ csearch' = r
                /\ cctx' = ctx
                /\ ccalls' = Append(ccalls, "search")
                /\ IF ctx.exc = "none"
                   THEN cpc' = "generate" /\ cresp' = cresp
                   ELSE /\ cpc' = "done"
                        /\ cresp' = chat_faq(chat_generate_response(ctx))
                /\ UNCHANGED <<creq, cemb, cgen, indexVars, verifyVars, raceVars>>

\* _generate_response: the generation call and the return.
ChatGenerate ==
    \E g \in GenOutcomes :
        /\ cpc = "generate"
        /\ cgen' = g
        /\ ccalls' = Append(ccalls, "generate")
        /\ cpc' = "done"
        /\ cresp' = chat_faq(chat_generate_response(chat_synthesize(creq.service, g)))
        /\ UNCHANGED <<creq, cemb, csearch, cctx, indexVars, verifyVars, raceVars>>

ChatInit ==
    /\ VerifyIdle
    /\ ChatIdle
    /\ RaceIdle
    /\ \E present \in BOOLEAN :
        /\ indexes = [n \in IndexNames |->
                        IF n = index_name /\ present THEN Some(FaqIndex) ELSE None]
        /\ docs \in (IF present
                     THEN {D \in SUBSET ChatPool : Cardinality(D) <= MaxDocs}
                     ELSE {{}})
    /\ uploads = {}
    /\ nextId = 0
    /\ ensureLog = <<>>
    /\ op = NoOp

ChatNext == ChatStart \/ ChatEmbed \/ ChatSearch \/ ChatGenerate

SpecChat == ChatInit /\ [][ChatNext]_vars

(***************************************************************************)
(* The chat pipeline: properties                                           *)
(***************************************************************************)
\* The generation call of the chat request failed.
ChatGenerationFailed == Called(ccalls, "generate") /\ cgen.exc # "none"

\* The search of the chat request returned, with these rows.
SearchReturned == Called(ccalls, "search") /\ csearch.exc = "none"

\* C1: when the generation call of a chat request fails, the response of
\* /api/faq/chat is the fixed apology with HTTP 200, never a 5xx.
C1_GenerationFailureIsApology ==
    ChatGenerationFailed =>
        /\ cpc = "done"
        /\ cresp.status = 200
        /\ cresp.response = Apology

C1_Witness == ChatGenerationFailed /\ cpc = "done" /\ cctx.val # <<>>

\* C8: when the search of a chat request returns zero documents, the
\* context is the empty string and the generation service is still called;
\* the response is the model's reply, not the outcome of an error path.
C8_EmptySearchStillGenerates ==
    (SearchReturned /\ csearch.val.rows = <<>>) =>
        /\ cctx = Returned(<<>>)
        /\ cpc = "generate" \/ Called(ccalls, "generate")

\* A result whose content parses as JSON and has an 'answer' field.
HasAnswer(row) ==
    /\ row.doc_content.some
    /\ LET j == JsonLoads(row.doc_content.val)
       IN  j.ok /\ j.kind = "dict" /\ <<"answer">> \in DOMAIN j.val

AnswerOf(row) == JsonLoads(row.doc_content.val).val[<<"answer">>].v

\* C9: for a (non-empty) ranked sequence of results the context is the
\* 'answer' values of the results that parse and have an 'answer', joined
\* with single spaces in ranking order; the other results are skipped and
\* cause no failure.
C9_ContextIsJoinedAnswers ==
    (SearchReturned /\ csearch.val.rows # <<>>) =>
        LET good == SelectSeq(csearch.val.rows, HasAnswer)
        IN  cctx = Returned(Join([i \in DOMAIN good |-> AnswerOf(good[i])]))

\* C16: a blob stored with zero-length content is handled by verify_file
\* exactly like an absent blob: after the download returned the empty
\* bytes the use case takes the 'Arquivo não encontrado' branch, the request
\* ends with the response of an absent blob, and neither the OCR nor the
\* generation service is called.
C16_EmptyBlobIsAbsentBlob ==
    (Called(vcalls, "download") /\ vcontent = Some(<<>>)) =>
        /\ execute_after_download(vcontent) = HTTPException(404, "Arquivo não encontrado")
        /\ vpc = "done"
        /\ vcalls = <<"download">>
        /\ vresp = verify_file_route(execute_after_download(None))

\* upload_file stored an empty file and verify_file downloaded it.
C16_Witness ==
    /\ upresp.status = 201
    /\ Len(vreq.document_path) = 2
    /\ <<vreq.document_path[1], vreq.document_path[2]>> \in DOMAIN blobs
    /\ blobs[<<vreq.document_path[1], vreq.document_path[2]>>] = Some(<<>>)
    /\ vcontent = Some(<<>>)
    /\ vcalls = <<"download">>
    /\ vpc = "done"

\* C15: a construction whose index creation failed completes without
\* raising, and a search_similar_documents issued while 'faq-index' is absent
\* raises: it returns no frame, empty or partial.
C15_FailedCreationThenSearchRaises ==
    /\ \A i \in DOMAIN ensureLog :
          ensureLog[i].created = "failed" => ensureLog[i].exc = "none"
    /\ (op.kind = "search" /\ ~indexes[index_name].some) => op.out.exc # "none"

\* A construction's creation failed, the index is still absent, and a search
\* that the embedding and search services would have served has raised.
C15_Witness ==
    /\ \E i \in DOMAIN ensureLog : ensureLog[i].created = "failed"
    /\ ~indexes[index_name].some
    /\ op.kind = "search"
    /\ op.embed = Returned(embeddings_dimension)
    /\ ~op.searchFault
    /\ op.out.exc = "HttpResponseError"

\* Every instance has completed its construction.
RaceDone == \A i \in Instances : inst[i].pc = "done"

\* C14 as stated: when the instances constructed concurrently with no
\* 'faq-index' have all completed, under every interleaving of their list and
\* create-or-update calls, none has raised and there is exactly one index
\* named 'faq-index', with the fixed schema.
C14_RaceLeavesOneIndex ==
    RaceDone =>
        /\ \A i \in Instances : inst[i].exc = "none"
        /\ indexes[index_name].some
        /\ indexes[index_name].val = FaqIndex

\* C14 as amended: under every interleaving no instance raises, a
\* create-or-update request is refused only by a failure of the service
\* (never because another instance has created the index meanwhile), and
\* 'faq-index' exists exactly when the create-or-update request of some
\* instance has succeeded, and then with the fixed schema.
C14_RaceLeavesOneIndexIfCreated ==
    /\ \A i \in Instances :
          /\ inst[i].exc = "none"
          /\ inst[i].created = "failed" => inst[i].createFault
    /\ indexes[index_name].some <=> \E i \in Instances : inst[i].created = "ok"
    /\ indexes[index_name].some => indexes[index_name].val = FaqIndex

\* Every instance listed the names, without failure, before any had created
\* the index, and then every instance sent its create-or-update request.
C14_Witness ==
    /\ RaceDone
    /\ \A i \in Instances :
          /\ ~inst[i].listFault
          /\ index_name \notin inst[i].names
          /\ inst[i].created = "ok"

\* The stages of a chat request, in the documented order.
ChatStages == <<"embed", "search", "generate">>

\* C13: within one chat request the stages run in the order embed ->
\* search (with the context assembly) -> generate, each at most once, and
\* no stage is reached after an earlier stage failed.
C13_StagesInOrderUntilFailure ==
    /\ Len(ccalls) <= Len(ChatStages)
    /\ ccalls = SubSeq(ChatStages, 1, Len(ccalls))
    /\ (Called(ccalls, "embed") /\ cemb.exc # "none") => ~Called(ccalls, "search")
    /\ (Called(ccalls, "search") /\ (csearch.exc # "none" \/ cctx.exc # "none")) =>
           ~Called(ccalls, "generate")

====
